---- MODULE Spec2Model ----
(***************************************************************************)
(* RyRef: a screen-space reference overlay for the 3D viewport.            *)
(*                                                                         *)
(* The model follows src/__init__.py: the record list of the scene         *)
(* (scene.ryref_images), the selected index (scene.ryref_index), the       *)
(* global toggle (scene.ryref_references_on), the module-level texture     *)
(* cache (_image_cache) and draw handle (_draw_handle), the three list     *)
(* operators, the property edits the panel offers, and the per-frame draw  *)
(* callback draw_overlay.                                                  *)
(*                                                                         *)
(* Numbers: positions are pixels; scale and opacity are kept in            *)
(* hundredths (0.2 is 20, 1.0 is 100), and quad coordinates in hundredths  *)
(* of a pixel, so that all arithmetic stays in the integers.               *)
(***************************************************************************)
EXTENDS Integers, Sequences, FiniteSets, TLC

VARIABLES
    ryref_images,         \* scene.ryref_images: the ordered record list
    ryref_index,          \* scene.ryref_index: the selected index (0-based)
    ryref_references_on,  \* scene.ryref_references_on: the global toggle
    image_cache,          \* _image_cache: filepath -> (image, gpu_tex)
    draw_handle,          \* _draw_handle is set (draw_overlay is registered)
    redraw_tagged,        \* a viewport redraw was requested and not yet served
    blend_state,          \* gpu.state blend mode left by the last gpu call
    frame_shown,          \* the last step was a run of draw_overlay
    draw_calls,           \* batch.draw calls of the frame now on screen
    load_log,             \* bpy.data.images.load attempts of that frame
    uploads               \* per path: cache insertions since its last eviction

vars == <<ryref_images, ryref_index, ryref_references_on, image_cache,
          draw_handle, redraw_tagged, blend_state, frame_shown, draw_calls,
          load_log, uploads>>

(***************************************************************************)
(* Bounds and input sets                                                   *)
(***************************************************************************)
\* Longest record list explored.
MaxImages == 2

\* Most fields of the whole list (visible, position, scale, opacity, flip_x,
\* flip_y) that the editors are let to move off their defaults.
MaxCustomised == 1

\* Paths the file selector and the File Path field can deliver.
Paths == {"a.png", "b.png"}

\* One unit of scale and opacity, in hundredths.
Hundredths == 100

\* What bpy.data.images.load + gl_load + gpu.texture.from_image can give
\* for a path: an exception, or an image with has_data and a size.
LoadError == [loaded |-> FALSE, has_data |-> FALSE, size |-> <<0, 0>>]
Image(has_data, w, h) ==
    [loaded |-> TRUE, has_data |-> has_data, size |-> <<w, h>>]
Images == {Image(TRUE, 500, 300), Image(TRUE, 0, 300), Image(TRUE, 500, 0),
           Image(FALSE, 500, 300)}
Outcomes == Images \cup {LoadError}

\* The file system as one frame sees it.
Disks == [Paths -> Outcomes]

\* The file systems in which every file is a good image or unreadable.
PlainDisks == [Paths -> {Image(TRUE, 500, 300), LoadError}]

(***************************************************************************)
(* RyRefImage                                                              *)
(***************************************************************************)
\* The property group's defaults, then the values add_image writes.
RyRefImage(filepath) ==
    [filepath |-> filepath,
     visible  |-> TRUE,
     position |-> <<100, 100>>,
     scale    |-> <<20, 20>>,
     opacity  |-> 100,
     flip_x   |-> FALSE,
     flip_y   |-> FALSE]

\* FloatProperty(min=0.0, max=1.0): the host clamps a written opacity.
ClampOpacity(v) == IF v < 0 THEN 0 ELSE IF v > Hundredths THEN Hundredths ELSE v

(***************************************************************************)
(* _image_cache: a dict from filepath to the loaded image                  *)
(***************************************************************************)
\* _image_cache[filepath] = (image, gpu_tex)
CachePut(cache, filepath, image) ==
    [p \in DOMAIN cache \cup {filepath} |->
        IF p = filepath THEN image ELSE cache[p]]

\* _image_cache.pop(filepath, None)
CachePop(cache, filepath) ==
    [p \in DOMAIN cache \ {filepath} |-> cache[p]]

\* _image_cache.clear(), and the dict the module starts with
EmptyCache == [p \in {} |-> LoadError]

ResetUploads(u, filepath) == [u EXCEPT ![filepath] = 0]

(***************************************************************************)
(* tag_redraw                                                              *)
(***************************************************************************)
tag_redraw == redraw_tagged' = TRUE

\* The frame on screen shows the state it was drawn from: once the state
\* changes, its draw calls and load attempts describe no current frame.
FrameStale == frame_shown' = FALSE /\ draw_calls' = <<>> /\ load_log' = <<>>

(***************************************************************************)
(* draw_overlay                                                            *)
(***************************************************************************)
\* line 103: the image cannot be drawn
Degenerate(image) ==
    ~image.has_data \/ image.size[1] = 0 \/ image.size[2] = 0

\* lines 106-117: the quad, anchored at position, in hundredths of a pixel
QuadCoords(img_data, image) ==
    LET x == img_data.position[1] * Hundredths
        y == img_data.position[2] * Hundredths
        width  == image.size[1] * img_data.scale[1]
        height == image.size[2] * img_data.scale[2]
    IN  << <<x, y>>, <<x + width, y>>, <<x + width, y + height>>,
           <<x, y + height>> >>

\* QuadUVs whose flip_y starts again from the unflipped square.
QuadUVs_FlipYOverrides(img_data) ==
    LET uvs0 == << <<0, 0>>, <<1, 0>>, <<1, 1>>, <<0, 1>> >>
    IN  IF img_data.flip_y
        THEN [k \in DOMAIN uvs0 |-> <<uvs0[k][1], 1 - uvs0[k][2]>>]
        ELSE IF img_data.flip_x
             THEN [k \in DOMAIN uvs0 |-> <<1 - uvs0[k][1], uvs0[k][2]>>]
             ELSE uvs0

\* lines 119-123
FlipU(uvs) == [k \in DOMAIN uvs |-> <<1 - uvs[k][1], uvs[k][2]>>]
FlipV(uvs) == [k \in DOMAIN uvs |-> <<uvs[k][1], 1 - uvs[k][2]>>]
QuadUVs(img_data) ==
    LET uvs0 == << <<0, 0>>, <<1, 0>>, <<1, 1>>, <<0, 1>> >>
        uvs1 == IF img_data.flip_x THEN FlipU(uvs0) ELSE uvs0
    IN  IF img_data.flip_y THEN FlipV(uvs1) ELSE uvs1

\* lines 125-138: one record's batch, drawn between blend_set('ALPHA') and
\* blend_set('NONE'); i is the record's place in the list (1-based)
DrawCall(i, img_data, image) ==
    [index    |-> i,
     sampler  |-> img_data.filepath,
     image    |-> image,
     pos      |-> QuadCoords(img_data, image),
     texCoord |-> QuadUVs(img_data),
     indices  |-> << <<0, 1, 2>>, <<2, 3, 0>> >>,
     color    |-> <<Hundredths, Hundredths, Hundredths, img_data.opacity>>,
     blend    |-> "ALPHA"]

\* DrawRecord without the test of line 103.
DrawRecord_NoSizeCheck(i, img_data, image, fr) ==
    [fr EXCEPT !.calls = Append(@, DrawCall(i, img_data, image)),
               !.blend = "NONE"]

\* DrawRecord that issues its batch ahead of the batches already drawn.
DrawRecord_Prepends(i, img_data, image, fr) ==
    IF Degenerate(image) THEN fr
    ELSE [fr EXCEPT !.calls = <<DrawCall(i, img_data, image)>> \o @,
                    !.blend = "NONE"]

\* DrawRecord that enables blending ahead of the test of line 103.
DrawRecord_BlendBeforeSizeCheck(i, img_data, image, fr) ==
    IF Degenerate(image) THEN [fr EXCEPT !.blend = "ALPHA"]
    ELSE [fr EXCEPT !.calls = Append(@, DrawCall(i, img_data, image)),
                    !.blend = "NONE"]

\* lines 103-138 for one record whose image is at hand
DrawRecord(i, img_data, image, fr) ==
    IF Degenerate(image) THEN fr
    ELSE [fr EXCEPT !.calls = Append(@, DrawCall(i, img_data, image)),
                    !.blend = "NONE"]

\* ResolveRecord without the lookup of line 92: every frame loads.
ResolveRecord_AlwaysLoads(i, img_data, disk, fr) ==
    LET filepath == img_data.filepath IN
    IF disk[filepath] = LoadError
    THEN [fr EXCEPT !.loads = Append(@, [filepath |-> filepath,
                                          result |-> LoadError])]
    ELSE DrawRecord(i, img_data, disk[filepath],
           [fr EXCEPT !.loads = Append(@, [filepath |-> filepath,
                                           result |-> disk[filepath]]),
                      !.cache = CachePut(@, filepath, disk[filepath]),
                      !.uploads[filepath] = @ + 1])

\* ResolveRecord that stores the cache entry before the load can fail.
ResolveRecord_CachesFailure(i, img_data, disk, fr) ==
    LET filepath == img_data.filepath IN
    IF filepath \notin DOMAIN fr.cache
    THEN IF disk[filepath] = LoadError
         THEN [fr EXCEPT !.loads = Append(@, [filepath |-> filepath,
                                               result |-> LoadError]),
                         !.cache = CachePut(@, filepath, LoadError)]
         ELSE DrawRecord(i, img_data, disk[filepath],
                [fr EXCEPT !.loads = Append(@, [filepath |-> filepath,
                                                result |-> disk[filepath]]),
                           !.cache = CachePut(@, filepath, disk[filepath]),
                           !.uploads[filepath] = @ + 1])
    ELSE DrawRecord(i, img_data, fr.cache[filepath], fr)

\* lines 92-101 for one visible record: the cached image, or a load
ResolveRecord(i, img_data, disk, fr) ==
    LET filepath == img_data.filepath IN
    IF filepath \notin DOMAIN fr.cache
    THEN IF disk[filepath] = LoadError
         THEN [fr EXCEPT !.loads = Append(@, [filepath |-> filepath,
                                               result |-> LoadError])]
         ELSE DrawRecord(i, img_data, disk[filepath],
                [fr EXCEPT !.loads = Append(@, [filepath |-> filepath,
                                                result |-> disk[filepath]]),
                           !.cache = CachePut(@, filepath, disk[filepath]),
                           !.uploads[filepath] = @ + 1])
    ELSE DrawRecord(i, img_data, fr.cache[filepath], fr)

\* DrawLoop that leaves the loop at the first failed load (break for
\* continue at line 99).
RECURSIVE DrawLoop_BreaksOnFailure(_, _, _, _)
DrawLoop_BreaksOnFailure(i, images, disk, fr) ==
    IF i > Len(images) THEN fr
    ELSE IF ~images[i].visible
         THEN DrawLoop_BreaksOnFailure(i + 1, images, disk, fr)
         ELSE IF /\ images[i].filepath \notin DOMAIN fr.cache
                 /\ disk[images[i].filepath] = LoadError
              THEN ResolveRecord(i, images[i], disk, fr)
              ELSE DrawLoop_BreaksOnFailure(i + 1, images, disk,
                       ResolveRecord(i, images[i], disk, fr))

\* DrawLoop without the test of line 88: hidden records are drawn too.
RECURSIVE DrawLoop_IgnoresVisible(_, _, _, _)
DrawLoop_IgnoresVisible(i, images, disk, fr) ==
    IF i > Len(images) THEN fr
    ELSE DrawLoop_IgnoresVisible(i + 1, images, disk,
                                 ResolveRecord(i, images[i], disk, fr))

\* lines 87-138: the loop over scene.ryref_images, from record i on
RECURSIVE DrawLoop(_, _, _, _)
DrawLoop(i, images, disk, fr) ==
    IF i > Len(images) THEN fr
    ELSE IF ~images[i].visible
         THEN DrawLoop(i + 1, images, disk, fr)
         ELSE DrawLoop(i + 1, images, disk,
                       ResolveRecord(i, images[i], disk, fr))

\* Composite without the test of line 84.
Composite_IgnoresToggle(images, references_on, cache, blend, ups, disk) ==
    DrawLoop(1, images, disk,
             [cache |-> cache, calls |-> <<>>, loads |-> <<>>,
              blend |-> blend, uploads |-> ups])

\* lines 82-138: what one call of draw_overlay does to the cache and emits
Composite(images, references_on, cache, blend, ups, disk) ==
    LET fr0 == [cache |-> cache, calls |-> <<>>, loads |-> <<>>,
                blend |-> blend, uploads |-> ups]
    IN  IF ~references_on THEN fr0 ELSE DrawLoop(1, images, disk, fr0)

\* The host runs the registered handler for a frame; disk is what the file
\* system holds during it.
draw_overlay(disk) ==
    /\ draw_handle
    /\ LET fr == Composite(ryref_images, ryref_references_on, image_cache,
                           blend_state, uploads, disk)
       IN  /\ image_cache' = fr.cache
           /\ frame_shown' = TRUE
           /\ draw_calls' = fr.calls
           /\ load_log' = fr.loads
           /\ blend_state' = fr.blend
           /\ uploads' = fr.uploads
    /\ redraw_tagged' = FALSE
    /\ UNCHANGED <<ryref_images, ryref_index, ryref_references_on, draw_handle>>

(***************************************************************************)
(* The list operators                                                      *)
(***************************************************************************)
\* Every operator and property below exists only between register and
\* unregister.
Registered == draw_handle

\* RYREF_OT_add_image.execute; filepath is what the file selector returned
RYREF_OT_add_image(filepath) ==
    /\ Registered
    /\ Len(ryref_images) < MaxImages
    /\ ryref_images' = Append(ryref_images, RyRefImage(filepath))
    /\ ryref_index' = Len(ryref_images') - 1
    /\ tag_redraw
    /\ FrameStale
    /\ UNCHANGED <<ryref_references_on, image_cache, draw_handle, blend_state,
                   uploads>>

\* scene.ryref_images.remove(idx), idx 0-based and in range
\* CollectionRemove that drops the last record whatever idx is.
CollectionRemove_RemovesLast(images, idx) ==
    SubSeq(images, 1, Len(images) - 1)

CollectionRemove(images, idx) ==
    SubSeq(images, 1, idx) \o SubSeq(images, idx + 2, Len(images))

\* RYREF_OT_remove_image without the index update of line 177.
RYREF_OT_remove_image_KeepsIndex ==
    /\ Registered
    /\ LET idx == ryref_index IN
       IF 0 <= idx /\ idx < Len(ryref_images)
       THEN LET img == ryref_images[idx + 1] IN
            /\ image_cache' = CachePop(image_cache, img.filepath)
            /\ uploads' = ResetUploads(uploads, img.filepath)
            /\ ryref_images' = CollectionRemove(ryref_images, idx)
            /\ ryref_index' = idx
       ELSE UNCHANGED <<image_cache, uploads, ryref_images, ryref_index>>
    /\ tag_redraw
    /\ FrameStale
    /\ UNCHANGED <<ryref_references_on, draw_handle, blend_state>>

\* RYREF_OT_remove_image.execute
RYREF_OT_remove_image ==
    /\ Registered
    /\ LET idx == ryref_index IN
       IF 0 <= idx /\ idx < Len(ryref_images)
       THEN LET img == ryref_images[idx + 1] IN
            /\ image_cache' = CachePop(image_cache, img.filepath)
            /\ uploads' = ResetUploads(uploads, img.filepath)
            /\ ryref_images' = CollectionRemove(ryref_images, idx)
            /\ ryref_index' = IF idx - 1 > 0 THEN idx - 1 ELSE 0
       ELSE UNCHANGED <<image_cache, uploads, ryref_images, ryref_index>>
    /\ tag_redraw
    /\ FrameStale
    /\ UNCHANGED <<ryref_references_on, draw_handle, blend_state>>

\* A move that writes the moved item over its neighbour instead of
\* exchanging the two.
CollectionMove_Overwrites(images, src, dst) ==
    IF /\ 0 <= src /\ src < Len(images)
       /\ 0 <= dst /\ dst < Len(images)
       /\ src # dst
    THEN [images EXCEPT ![dst + 1] = images[src + 1]]
    ELSE images

\* scene.ryref_images.move(src, dst), both 0-based: the host moves the item
\* when both are positions of the collection and differ, and otherwise
\* leaves the collection as it is, without an error.
CollectionMove(images, src, dst) ==
    IF /\ 0 <= src /\ src < Len(images)
       /\ 0 <= dst /\ dst < Len(images)
       /\ src # dst
    THEN LET rest == CollectionRemove(images, src)
         IN  SubSeq(rest, 1, dst) \o <<images[src + 1]>>
                \o SubSeq(rest, dst + 1, Len(rest))
    ELSE images

\* A move that also drops the cache entry of the moved record.
RYREF_OT_move_image_Evicts(direction) ==
    /\ Registered
    /\ LET images == ryref_images
           index == ryref_index
       IN  IF direction = "UP" /\ index > 0
           THEN /\ ryref_images' = CollectionMove(images, index, index - 1)
                /\ ryref_index' = ryref_index - 1
                /\ image_cache' = CachePop(image_cache,
                                           images[index + 1].filepath)
           ELSE IF direction = "DOWN" /\ index < Len(images) - 1
           THEN /\ ryref_images' = CollectionMove(images, index, index + 1)
                /\ ryref_index' = ryref_index + 1
                /\ image_cache' = CachePop(image_cache,
                                           images[index + 1].filepath)
           ELSE UNCHANGED <<ryref_images, ryref_index, image_cache>>
    /\ tag_redraw
    /\ FrameStale
    /\ UNCHANGED <<ryref_references_on, draw_handle, blend_state, uploads>>

\* RYREF_OT_move_image without the index updates of lines 197 and 200.
RYREF_OT_move_image_IndexStays(direction) ==
    /\ Registered
    /\ LET images == ryref_images
           index == ryref_index
       IN  IF direction = "UP" /\ index > 0
           THEN ryref_images' = CollectionMove(images, index, index - 1)
           ELSE IF direction = "DOWN" /\ index < Len(images) - 1
           THEN ryref_images' = CollectionMove(images, index, index + 1)
           ELSE UNCHANGED ryref_images
    /\ UNCHANGED ryref_index
    /\ tag_redraw
    /\ FrameStale
    /\ UNCHANGED <<ryref_references_on, image_cache, draw_handle, blend_state,
                   uploads>>

\* RYREF_OT_move_image.execute
RYREF_OT_move_image(direction) ==
    /\ Registered
    /\ LET images == ryref_images
           index == ryref_index
       IN  IF direction = "UP" /\ index > 0
           THEN /\ ryref_images' = CollectionMove(images, index, index - 1)
                /\ ryref_index' = ryref_index - 1
           ELSE IF direction = "DOWN" /\ index < Len(images) - 1
           THEN /\ ryref_images' = CollectionMove(images, index, index + 1)
                /\ ryref_index' = ryref_index + 1
           ELSE UNCHANGED <<ryref_images, ryref_index>>
    /\ tag_redraw
    /\ FrameStale
    /\ UNCHANGED <<ryref_references_on, image_cache, draw_handle, blend_state,
                   uploads>>

(***************************************************************************)
(* Property edits                                                          *)
(***************************************************************************)
\* Values the editors are given in this model.
IndexValues == -1..MaxImages
Positions == {<<100, 100>>, <<0, 40>>}
Scales == {<<20, 20>>, <<100, 50>>}
Opacities == {50, 130}

\* line 234: the panel shows the editors of the selected record
PanelShowsRecord == 0 <= ryref_index /\ ryref_index < Len(ryref_images)

\* The fields of the list that differ from the defaults.
Customised(images) ==
    {<<k, f>> \in (1..Len(images)) \X {"visible", "position", "scale",
                                       "opacity", "flip_x", "flip_y"} :
        images[k][f] # RyRefImage(images[k].filepath)[f]}

\* A property with no update callback: the host stores the value.
StoreField(i, field, v) ==
    /\ ryref_images' = [ryref_images EXCEPT ![i][field] = v]
    /\ Cardinality(Customised(ryref_images')) <= MaxCustomised
    /\ FrameStale
    /\ UNCHANGED <<ryref_index, ryref_references_on, image_cache, draw_handle,
                   redraw_tagged, blend_state, uploads>>

\* StoreFieldAndUpdate whose callback also drops the record's cache entry.
StoreFieldAndUpdate_Evicts(i, field, v) ==
    /\ ryref_images' = [ryref_images EXCEPT ![i][field] = v]
    /\ Cardinality(Customised(ryref_images')) <= MaxCustomised
    /\ image_cache' = CachePop(image_cache, ryref_images[i].filepath)
    /\ uploads' = ResetUploads(uploads, ryref_images[i].filepath)
    /\ tag_redraw
    /\ FrameStale
    /\ UNCHANGED <<ryref_index, ryref_references_on, draw_handle, blend_state>>

\* A property with update=lambda self, context: tag_redraw()
StoreFieldAndUpdate(i, field, v) ==
    /\ ryref_images' = [ryref_images EXCEPT ![i][field] = v]
    /\ Cardinality(Customised(ryref_images')) <= MaxCustomised
    /\ tag_redraw
    /\ FrameStale
    /\ UNCHANGED <<ryref_index, ryref_references_on, image_cache, draw_handle,
                   blend_state, uploads>>

\* template_list(..., scene, "ryref_index"): the host writes the active
\* index; ryref_index is an IntProperty without min or max.
set_ryref_index(v) ==
    /\ Registered
    /\ ryref_index' = v
    /\ FrameStale
    /\ UNCHANGED <<ryref_images, ryref_references_on, image_cache, draw_handle,
                   redraw_tagged, blend_state, uploads>>

\* layout.prop(scene, "ryref_references_on", toggle=True)
set_ryref_references_on(v) ==
    /\ Registered
    /\ ryref_references_on' = v
    /\ FrameStale
    /\ UNCHANGED <<ryref_images, ryref_index, image_cache, draw_handle,
                   redraw_tagged, blend_state, uploads>>

\* RYREF_UL_ImageList.draw_item: row.prop(item, "visible"), any row i
set_visible(i, v) ==
    /\ Registered
    /\ i \in 1..Len(ryref_images)
    /\ StoreField(i, "visible", v)

\* layout.prop(img, "filepath")
set_filepath(v) ==
    /\ Registered
    /\ PanelShowsRecord
    /\ StoreField(ryref_index + 1, "filepath", v)

\* layout.prop(img, "opacity", slider=True)
set_opacity(v) ==
    /\ Registered
    /\ PanelShowsRecord
    /\ StoreFieldAndUpdate(ryref_index + 1, "opacity", ClampOpacity(v))

\* col.prop(img, "position", ...)
set_position(v) ==
    /\ Registered
    /\ PanelShowsRecord
    /\ StoreFieldAndUpdate(ryref_index + 1, "position", v)

\* col.prop(img, "scale", ...)
set_scale(v) ==
    /\ Registered
    /\ PanelShowsRecord
    /\ StoreFieldAndUpdate(ryref_index + 1, "scale", v)

\* row.prop(img, "flip_x", toggle=True)
set_flip_x(v) ==
    /\ Registered
    /\ PanelShowsRecord
    /\ StoreFieldAndUpdate(ryref_index + 1, "flip_x", v)

\* row.prop(img, "flip_y", toggle=True)
set_flip_y(v) ==
    /\ Registered
    /\ PanelShowsRecord
    /\ StoreFieldAndUpdate(ryref_index + 1, "flip_y", v)

(***************************************************************************)
(* register / unregister                                                   *)
(***************************************************************************)
\* The scene keeps the values of the three properties while the addon is
\* unregistered; nothing can read or write them until register defines the
\* properties again.
register ==
    /\ ~draw_handle
    /\ draw_handle' = TRUE
    /\ FrameStale
    /\ UNCHANGED <<ryref_images, ryref_index, ryref_references_on, image_cache,
                   redraw_tagged, blend_state, uploads>>

\* unregister without _image_cache.clear().
unregister_KeepsCache ==
    /\ Registered
    /\ draw_handle' = FALSE
    /\ FrameStale
    /\ UNCHANGED <<ryref_images, ryref_index, ryref_references_on,
                   image_cache, uploads, redraw_tagged, blend_state>>

unregister ==
    /\ Registered
    /\ draw_handle' = FALSE
    /\ image_cache' = EmptyCache
    /\ uploads' = [p \in Paths |-> 0]
    /\ FrameStale
    /\ UNCHANGED <<ryref_images, ryref_index, ryref_references_on,
                   redraw_tagged, blend_state>>

(***************************************************************************)
(* Specifications                                                          *)
(***************************************************************************)
\* The module as imported, before register: lines 19-21 and the property
\* defaults of lines 265-271.
Init ==
    /\ ryref_images = <<>>
    /\ ryref_index = 0
    /\ ryref_references_on = TRUE
    /\ image_cache = EmptyCache
    /\ draw_handle = FALSE
    /\ redraw_tagged = FALSE
    /\ blend_state = "NONE"
    /\ frame_shown = FALSE
    /\ draw_calls = <<>>
    /\ load_log = <<>>
    /\ uploads = [p \in Paths |-> 0]

Lifecycle == register \/ unregister

ListCommands ==
    \/ \E filepath \in Paths : RYREF_OT_add_image(filepath)
    \/ RYREF_OT_remove_image
    \/ \E direction \in {"UP", "DOWN"} : RYREF_OT_move_image(direction)

\* A click on a row of the list.
RowClick == \E v \in 0..(MaxImages - 1) :
                v < Len(ryref_images) /\ set_ryref_index(v)

\* Any write of the index, rows of the list or not.
Selection == \E v \in IndexValues : set_ryref_index(v)

SilentEdits ==
    \/ \E v \in BOOLEAN : set_ryref_references_on(v)
    \/ \E i \in 1..MaxImages, v \in BOOLEAN : set_visible(i, v)
    \/ \E v \in Paths : set_filepath(v)

GeometryEdits ==
    \/ \E v \in Opacities : set_opacity(v)
    \/ \E v \in Positions : set_position(v)
    \/ \E v \in Scales : set_scale(v)
    \/ \E v \in BOOLEAN : set_flip_x(v)
    \/ \E v \in BOOLEAN : set_flip_y(v)

Frame == \E disk \in Disks : draw_overlay(disk)
PlainFrame == \E disk \in PlainDisks : draw_overlay(disk)

\* Everything the addon offers, with frames over the plain file systems.
Next == Lifecycle \/ ListCommands \/ RowClick \/ SilentEdits \/ GeometryEdits
           \/ PlainFrame
Spec == Init /\ [][Next]_vars

\* The texture cache and the compositor: every operation but the edits of
\* the quad's geometry, which the cache never sees.
NextCache == Lifecycle \/ ListCommands \/ Selection \/ SilentEdits \/ Frame
SpecCache == Init /\ [][NextCache]_vars

\* Records as add_image made them, with any flips set since.
Flipped(filepath, fx, fy) ==
    [RyRefImage(filepath) EXCEPT !.flip_x = fx, !.flip_y = fy]
FlippedRecords == {Flipped(p, fx, fy) : p \in Paths, fx \in BOOLEAN, fy \in BOOLEAN}

\* A registered addon with a list of such records, nothing drawn yet.
InitUV ==
    /\ ryref_images \in UNION {[1..n -> FlippedRecords] : n \in 1..MaxImages}
    /\ ryref_index \in 0..(MaxImages - 1)
    /\ ryref_index < Len(ryref_images)
    /\ ryref_references_on = TRUE
    /\ image_cache = EmptyCache
    /\ draw_handle = TRUE
    /\ redraw_tagged = TRUE
    /\ blend_state = "NONE"
    /\ frame_shown = FALSE
    /\ draw_calls = <<>>
    /\ load_log = <<>>
    /\ uploads = [p \in Paths |-> 0]

FlipEdits ==
    \/ \E v \in BOOLEAN : set_flip_x(v)
    \/ \E v \in BOOLEAN : set_flip_y(v)

\* The quad's texture coordinates: frames over records with every
\* combination of flips, and the flip checkboxes.
NextUV == FlipEdits \/ PlainFrame
SpecUV == InitUV /\ [][NextUV]_vars

(***************************************************************************)
(* Vocabulary of the properties                                            *)
(***************************************************************************)
ZeroSized(image) == image.size[1] = 0 \/ image.size[2] = 0
Drawable(image) == image.loaded /\ image.has_data /\ ~ZeroSized(image)

\* Draw calls of a frame for the record at place i; for a path.
CallsOf(calls, i) == {k \in 1..Len(calls) : calls[k].index = i}
CallsWith(calls, filepath) == {k \in 1..Len(calls) : calls[k].sampler = filepath}

\* Load attempts of a frame for a path that failed; that were made.
FailedLoads(loads, filepath) ==
    {k \in 1..Len(loads) : loads[k].filepath = filepath /\ ~loads[k].result.loaded}
Attempts(loads, filepath) == {k \in 1..Len(loads) : loads[k].filepath = filepath}

SelectedInRange == 0 <= ryref_index /\ ryref_index < Len(ryref_images)
Sharers(images, filepath) == {k \in 1..Len(images) : images[k].filepath = filepath}

\* C1: a remove of the selected record leaves the cache entry of its path in
\* place whenever another record has the same path.
C1_SharedPathKeptOnRemove ==
    [][(/\ RYREF_OT_remove_image
        /\ SelectedInRange
        /\ ryref_images[ryref_index + 1].filepath \in DOMAIN image_cache
        /\ Cardinality(Sharers(ryref_images,
                               ryref_images[ryref_index + 1].filepath)) > 1)
       => ryref_images[ryref_index + 1].filepath \in DOMAIN image_cache']_vars

\* C2: between two evictions of a path, the image of that path is loaded
\* and uploaded at most once, however many frames are drawn.
C2_LoadedOncePerPath == \A p \in Paths : uploads[p] <= 1

\* A frame that drew a record from the cache, loading nothing.
C2_Witness ==
    /\ frame_shown
    /\ draw_calls # <<>>
    /\ load_log = <<>>
    /\ \E p \in Paths : uploads[p] = 1 /\ CallsWith(draw_calls, p) # {}

\* The image a path resolves to in a frame that started from cache and
\* made the load attempts loads: the cached image, or what the load gave.
ResolvedIn(cache, loads, filepath) ==
    IF filepath \in DOMAIN cache THEN cache[filepath]
    ELSE IF Attempts(loads, filepath) # {}
         THEN loads[CHOOSE k \in Attempts(loads, filepath) : TRUE].result
         ELSE LoadError

\* C3: in a frame, every visible record is resolved (from the cache, or by
\* a load), and every one whose image resolves to a drawable image gets
\* exactly one draw call, whatever happens to the other records.
C3_FailureSkipsOnlyThatRecord ==
    [][(frame_shown' /\ ryref_references_on) =>
        \A i \in 1..Len(ryref_images) :
            ryref_images[i].visible =>
                LET p == ryref_images[i].filepath IN
                /\ p \in DOMAIN image_cache \/ Attempts(load_log', p) # {}
                /\ Drawable(ResolvedIn(image_cache, load_log', p))
                   => Cardinality(CallsOf(draw_calls', i)) = 1]_vars

\* A frame in which the first record's load failed and the second was drawn.
C3_Witness ==
    /\ frame_shown
    /\ Len(ryref_images) >= 2
    /\ ryref_images[1].visible
    /\ FailedLoads(load_log, ryref_images[1].filepath) # {}
    /\ CallsOf(draw_calls, 2) # {}

\* The records without their paths: the fields whose change is to be
\* followed by a redraw.
OverlayFields(images) ==
    [k \in 1..Len(images) |->
        [f \in {"visible", "position", "scale", "opacity", "flip_x", "flip_y"}
            |-> images[k][f]]]

\* C4: after every step that changes an overlay property of a record, the
\* global toggle or the list itself, a redraw is requested.
C4_EveryChangeTagsRedraw ==
    [][(\/ OverlayFields(ryref_images') # OverlayFields(ryref_images)
        \/ ryref_references_on' # ryref_references_on)
       => redraw_tagged']_vars

\* C5: with the selected index out of range, remove and move change neither
\* the list, nor the index, nor the cache.
C5_OutOfRangeIsNoOp ==
    [][(/\ ~SelectedInRange
        /\ \/ RYREF_OT_remove_image
           \/ \E direction \in {"UP", "DOWN"} : RYREF_OT_move_image(direction))
       => UNCHANGED <<ryref_images, ryref_index, image_cache>>]_vars

\* C6: a failed load leaves no cache entry for the path, and a frame that
\* reaches a visible record whose path has no entry attempts the load.
C6_FailedLoadIsRetried ==
    [][frame_shown' =>
        \A p \in Paths :
            /\ FailedLoads(load_log', p) # {} => p \notin DOMAIN image_cache'
            /\ (/\ p \notin DOMAIN image_cache
                /\ ryref_references_on
                /\ \E i \in Sharers(ryref_images, p) : ryref_images[i].visible)
               => Attempts(load_log', p) # {}]_vars

\* A frame in which the load of a visible record's path failed.
C6_Witness ==
    \E i \in 1..Len(ryref_images) :
        /\ ryref_images[i].visible
        /\ FailedLoads(load_log, ryref_images[i].filepath) # {}
        /\ ryref_images[i].filepath \notin DOMAIN image_cache

\* C7 as claimed: a zero-sized image leaves the cache as a failed load does,
\* with no entry for its path.
C7_DegenerateLeavesNoEntry ==
    \A k \in 1..Len(load_log) :
        (load_log[k].result.loaded /\ ZeroSized(load_log[k].result))
        => /\ CallsWith(draw_calls, load_log[k].filepath) = {}
           /\ load_log[k].filepath \notin DOMAIN image_cache

\* C7 as amended: no record of a path whose load failed or gave a zero-sized
\* image is drawn in that frame; the failed load leaves no cache entry, the
\* zero-sized image is cached.
C7_DegenerateSkippedButCached ==
    \A k \in 1..Len(load_log) :
        LET p == load_log[k].filepath
            r == load_log[k].result
        IN  /\ ~r.loaded =>
                /\ CallsWith(draw_calls, p) = {}
                /\ p \notin DOMAIN image_cache
            /\ (r.loaded /\ ZeroSized(r)) =>
                /\ CallsWith(draw_calls, p) = {}
                /\ p \in DOMAIN image_cache
                /\ image_cache[p] = r

\* A frame that loaded a zero-sized image for a visible record.
C7_Witness ==
    \E k \in 1..Len(load_log) :
        /\ load_log[k].result.loaded
        /\ ZeroSized(load_log[k].result)
        /\ \E i \in Sharers(ryref_images, load_log[k].filepath) :
                ryref_images[i].visible

\* C8: every key of the cache is the path of a record of the list.
C8_NoStaleEntry ==
    \A p \in DOMAIN image_cache : Sharers(ryref_images, p) # {}

\* The paths of the list, in order.
PathSeq(images) == [k \in 1..Len(images) |-> images[k].filepath]

\* A step that keeps the path of every record it keeps: the list of paths is
\* the same, or has one more at the end, or has lost one, or has one moved.
PathsKept ==
    LET a == PathSeq(ryref_images)
        b == PathSeq(ryref_images')
    IN  \/ b = a
        \/ \E p \in Paths : b = Append(a, p)
        \/ \E i \in 0..(Len(a) - 1) : b = CollectionRemove(a, i)
        \/ \E i, j \in 0..(Len(a) - 1) :
                b = SubSeq(CollectionRemove(a, i), 1, j) \o <<a[i + 1]>>
                    \o SubSeq(CollectionRemove(a, i), j + 1, Len(a) - 1)

C10_TeardownLeavesNothing ==
    ~draw_handle =>
        /\ image_cache = EmptyCache
        /\ ~frame_shown
        /\ draw_calls = <<>>
        /\ load_log = <<>>

\* Unregistered after records were added and a frame was drawn.
C10_Witness ==
    /\ ~draw_handle
    /\ ryref_images # <<>>
    /\ ~redraw_tagged

\* How many records of the list are equal to r.
Copies(images, r) == Cardinality({k \in 1..Len(images) : images[k] = r})

\* C11: a move leaves the records what they were, each with all its fields
\* and as many times as before, and leaves the cache as it was.
C11_MoveChangesOnlyOrder ==
    [][(\E direction \in {"UP", "DOWN"} : RYREF_OT_move_image(direction))
       => /\ Len(ryref_images') = Len(ryref_images)
          /\ \A k \in 1..Len(ryref_images) :
                Copies(ryref_images', ryref_images[k])
                    = Copies(ryref_images, ryref_images[k])
          /\ image_cache' = image_cache]_vars

\* Two records that differ in path and in an edited field, the edited one
\* first and selected, with a cached texture, after a command.
C11_Witness ==
    /\ Len(ryref_images) = 2
    /\ ryref_images[1].filepath # ryref_images[2].filepath
    /\ Customised(ryref_images) # {}
    /\ \A c \in Customised(ryref_images) : c[1] = 1
    /\ ryref_index = 0
    /\ ryref_images[1].filepath \in DOMAIN image_cache
    /\ redraw_tagged
    /\ ~frame_shown

\* C12: a frame emits no draw call for a hidden record and resolves nothing
\* on its account: a path that only hidden records have is not loaded and
\* gets no cache entry, whether or not the cache has the path already.
C12_HiddenRecordUntouched ==
    [][frame_shown' =>
        \A i \in 1..Len(ryref_images) :
            ~ryref_images[i].visible =>
                LET p == ryref_images[i].filepath IN
                /\ CallsOf(draw_calls', i) = {}
                /\ (\A j \in Sharers(ryref_images, p) :
                        ~ryref_images[j].visible)
                   => /\ Attempts(load_log', p) = {}
                      /\ CallsWith(draw_calls', p) = {}
                      /\ (p \in DOMAIN image_cache') = (p \in DOMAIN image_cache)]_vars

\* A frame with the toggle on that drew a record and left out a hidden one
\* whose drawable image is in the cache.
C12_Witness ==
    /\ frame_shown
    /\ ryref_references_on
    /\ draw_calls # <<>>
    /\ \E i \in 1..Len(ryref_images) :
        /\ ~ryref_images[i].visible
        /\ ryref_images[i].filepath \in DOMAIN image_cache
        /\ Drawable(image_cache[ryref_images[i].filepath])
        /\ CallsOf(draw_calls, i) = {}

\* The file systems under which a frame makes the load attempts loads.
DisksOf(loads) ==
    {d \in Disks : \A k \in 1..Len(loads) : d[loads[k].filepath] = loads[k].result}

\* C13: a frame drawn while the toggle is off emits no draw call, attempts
\* no load and leaves the cache alone; a write of the toggle changes neither
\* the records nor the cache; and a frame drawn with the toggle on is what
\* the next frame over the same records and files emits again, so the frames
\* after off-and-on repeat the draw calls of the frame before.
C13_ToggleHidesAndRestores ==
    [][/\ (frame_shown' /\ ~ryref_references_on)
          => /\ draw_calls' = <<>>
             /\ load_log' = <<>>
             /\ image_cache' = image_cache
       /\ (ryref_references_on' # ryref_references_on)
          => UNCHANGED <<ryref_images, image_cache>>
       /\ (frame_shown' /\ ryref_references_on)
          => \A d \in DisksOf(load_log') :
                /\ Composite(ryref_images', FALSE, image_cache', blend_state',
                             uploads', d).cache = image_cache'
                /\ Composite(ryref_images', TRUE, image_cache', blend_state',
                             uploads', d).calls = draw_calls']_vars

\* A frame drawn with the toggle off over a visible record whose drawable
\* image is in the cache.
C13_Witness ==
    /\ frame_shown
    /\ ~ryref_references_on
    /\ draw_calls = <<>>
    /\ \E i \in 1..Len(ryref_images) :
        /\ ryref_images[i].visible
        /\ ryref_images[i].filepath \in DOMAIN image_cache
        /\ Drawable(image_cache[ryref_images[i].filepath])

\* C14: the draw calls of a frame come in store order, one at most per
\* record, each for a visible record whose path resolved to a drawable
\* image, and with the toggle on every such record has its call.
C14_DrawCallsInStoreOrder ==
    frame_shown =>
        /\ \A k \in 1..(Len(draw_calls) - 1) :
               draw_calls[k].index < draw_calls[k + 1].index
        /\ \A k \in 1..Len(draw_calls) :
               /\ draw_calls[k].index \in 1..Len(ryref_images)
               /\ LET img_data == ryref_images[draw_calls[k].index] IN
                  /\ img_data.visible
                  /\ draw_calls[k].sampler = img_data.filepath
                  /\ img_data.filepath \in DOMAIN image_cache
                  /\ draw_calls[k].image = image_cache[img_data.filepath]
                  /\ Drawable(draw_calls[k].image)
        /\ ryref_references_on =>
               \A i \in 1..Len(ryref_images) :
                   (/\ ryref_images[i].visible
                    /\ ryref_images[i].filepath \in DOMAIN image_cache
                    /\ Drawable(image_cache[ryref_images[i].filepath]))
                   => Cardinality(CallsOf(draw_calls, i)) = 1

\* A frame that drew two records.
C14_Witness ==
    /\ frame_shown
    /\ Len(draw_calls) = 2
    /\ draw_calls[1].index = 1
    /\ draw_calls[2].index = 2

\* C15: a step that changes the cache is no add, no move and no edit of
\* position, scale, opacity, flip or visibility; and a step that gives the
\* cache a new entry is a frame drawn with the toggle on, the entry is for
\* the path of a visible record, and the entries already there stay.
C15_OnlyFramesFillTheCache ==
    [][(image_cache' # image_cache) =>
        /\ ~(\E filepath \in Paths : RYREF_OT_add_image(filepath))
        /\ ~(\E direction \in {"UP", "DOWN"} : RYREF_OT_move_image(direction))
        /\ ~GeometryEdits
        /\ ~(\E i \in 1..MaxImages, v \in BOOLEAN : set_visible(i, v))
        /\ (DOMAIN image_cache' \ DOMAIN image_cache # {}) =>
              /\ frame_shown'
              /\ ryref_references_on
              /\ \A p \in DOMAIN image_cache :
                     p \in DOMAIN image_cache' /\ image_cache'[p] = image_cache[p]
              /\ \A p \in DOMAIN image_cache' \ DOMAIN image_cache :
                     \E i \in Sharers(ryref_images, p) : ryref_images[i].visible]_vars

\* An edited record whose image is in the cache, the edit not yet drawn.
C15_Witness ==
    /\ redraw_tagged
    /\ ~frame_shown
    /\ \E i \in 1..Len(ryref_images) :
        /\ \E f \in {"position", "scale", "opacity", "flip_x", "flip_y"} :
               <<i, f>> \in Customised(ryref_images)
        /\ ryref_images[i].filepath \in DOMAIN image_cache
        /\ ryref_index = i - 1

\* The texture coordinates the four combinations of flips stand for.
ExpectedUVs(fx, fy) ==
    IF fx /\ fy  THEN << <<1, 1>>, <<0, 1>>, <<0, 0>>, <<1, 0>> >>
    ELSE IF fx   THEN << <<1, 0>>, <<0, 0>>, <<0, 1>>, <<1, 1>> >>
    ELSE IF fy   THEN << <<0, 1>>, <<1, 1>>, <<1, 0>>, <<0, 0>> >>
    ELSE              << <<0, 0>>, <<1, 0>>, <<1, 1>>, <<0, 1>> >>

\* The flips of a record applied to the unit square, flip_y first.
UVsFlipYFirst(img_data) ==
    LET uvs0 == << <<0, 0>>, <<1, 0>>, <<1, 1>>, <<0, 1>> >>
        uvs1 == IF img_data.flip_y THEN FlipV(uvs0) ELSE uvs0
    IN  IF img_data.flip_x THEN FlipU(uvs1) ELSE uvs1

\* C16: the texture coordinates of every draw call are the unit square with
\* u mirrored under flip_x and v mirrored under flip_y: the four corner
\* lists of the four combinations, the same whichever flip is applied first.
C16_UVsFollowTheFlips ==
    \A k \in 1..Len(draw_calls) :
        LET img_data == ryref_images[draw_calls[k].index] IN
        /\ draw_calls[k].texCoord = ExpectedUVs(img_data.flip_x, img_data.flip_y)
        /\ draw_calls[k].texCoord = UVsFlipYFirst(img_data)

\* A frame that drew a record with both flips set and one with flip_x alone.
C16_Witness ==
    /\ frame_shown
    /\ Len(draw_calls) = 2
    /\ ryref_images[1].flip_x /\ ryref_images[1].flip_y
    /\ ryref_images[2].flip_x /\ ~ryref_images[2].flip_y
    /\ draw_calls[1].texCoord = << <<1, 1>>, <<0, 1>>, <<0, 0>>, <<1, 0>> >>
    /\ draw_calls[2].texCoord = << <<1, 0>>, <<0, 0>>, <<0, 1>>, <<1, 1>> >>

\* C17: every draw call is made with alpha blending on, and outside the
\* draw calls blending is off: it is NONE after every frame, whichever
\* records the frame drew or skipped.
C17_BlendOnlyAroundDraws ==
    /\ blend_state = "NONE"
    /\ \A k \in 1..Len(draw_calls) : draw_calls[k].blend = "ALPHA"

\* A frame that drew one record and then skipped a visible one whose image
\* is degenerate.
C17_Witness ==
    /\ frame_shown
    /\ Len(ryref_images) = 2
    /\ Len(draw_calls) = 1
    /\ draw_calls[1].index = 1
    /\ draw_calls[1].blend = "ALPHA"
    /\ ryref_images[2].visible
    /\ ryref_images[2].filepath \in DOMAIN image_cache
    /\ ~Drawable(image_cache[ryref_images[2].filepath])
    /\ blend_state = "NONE"

\* C18: the selected index is a position of the list whenever the list has
\* records, and 0 when it has none.
C18_IndexValid ==
    /\ Len(ryref_images) > 0 => (0 <= ryref_index /\ ryref_index < Len(ryref_images))
    /\ Len(ryref_images) = 0 => ryref_index = 0

\* A list of one record, selected, its image cached and no other path in
\* the cache, the change not drawn yet: what the remove of the second of
\* two records leaves.
C18_Witness ==
    /\ Len(ryref_images) = 1
    /\ ryref_index = 0
    /\ redraw_tagged
    /\ ~frame_shown
    /\ DOMAIN image_cache = {ryref_images[1].filepath}

\* The list with the records at places a and b exchanged.
Swapped(images, a, b) == [images EXCEPT ![a] = images[b], ![b] = images[a]]

\* C19: with the selected index in range, a move UP above place 0 or DOWN
\* below the last place exchanges the selected record with that neighbour
\* and moves the index with it; UP at 0 and DOWN at the last place leave the
\* list and the index as they were; either way the index designates the
\* record it designated.
C19_MoveSwapsAndFollows ==
    [][\A direction \in {"UP", "DOWN"} :
        (RYREF_OT_move_image(direction) /\ SelectedInRange) =>
            LET i == ryref_index + 1 IN
            /\ (direction = "UP" /\ i > 1)
               => /\ ryref_images' = Swapped(ryref_images, i, i - 1)
                  /\ ryref_index' = ryref_index - 1
            /\ (direction = "DOWN" /\ i < Len(ryref_images))
               => /\ ryref_images' = Swapped(ryref_images, i, i + 1)
                  /\ ryref_index' = ryref_index + 1
            /\ ((direction = "UP" /\ i = 1)
                \/ (direction = "DOWN" /\ i = Len(ryref_images)))
               => UNCHANGED <<ryref_images, ryref_index>>
            /\ ryref_images'[ryref_index' + 1] = ryref_images[i]]_vars

\* Two records of different paths, the second selected and the only one
\* edited, the change not drawn yet.
C19_Witness ==
    /\ Len(ryref_images) = 2
    /\ ryref_images[1].filepath # ryref_images[2].filepath
    /\ Customised(ryref_images) # {}
    /\ \A c \in Customised(ryref_images) : c[1] = 2
    /\ ryref_index = 1
    /\ redraw_tagged
    /\ ~frame_shown

\* C20: with the selected index idx in range, a remove leaves the list one
\* shorter, the records before idx in place and those after it one place
\* down, each as it was, and sets the index to the larger of 0 and idx - 1.
C20_RemoveDeletesSelected ==
    [][(RYREF_OT_remove_image /\ SelectedInRange) =>
        LET idx == ryref_index IN
        /\ Len(ryref_images') = Len(ryref_images) - 1
        /\ \A k \in 1..Len(ryref_images') :
               ryref_images'[k] = IF k <= idx THEN ryref_images[k]
                                  ELSE ryref_images[k + 1]
        /\ ryref_index' \in {0, idx - 1}
        /\ ryref_index' >= 0
        /\ ryref_index' >= idx - 1]_vars

\* One edited record left, selected, with an empty cache, the change not
\* drawn yet.
C20_Witness ==
    /\ Len(ryref_images) = 1
    /\ ryref_index = 0
    /\ Customised(ryref_images) # {}
    /\ image_cache = EmptyCache
    /\ redraw_tagged
    /\ ~frame_shown

====
